---- MODULE Spec2Model ----
(***************************************************************************)
(* wscat-rs client (src/src/client.rs, src/src/main.rs).                   *)
(*                                                                         *)
(* Three threads: the stdin loop (main thread, wscat_client), the stdout   *)
(* loop (stdout_handle) and the websocket thread (ws_handle) that runs     *)
(* ws_client with its two local tasks, read_task and write_task.           *)
(* Strings and payloads are sequences of bytes (a Rust String is its       *)
(* UTF-8 encoding).                                                        *)
(***************************************************************************)
EXTENDS Integers, Sequences, FiniteSets, TLC

\* ---------------------------------------------------------------- bounds
\* number of inputs one run receives from outside: lines submitted at the
\* prompt plus frames delivered by the server
MaxInputs == 3
\* number of inputs a run receives after the outbound channel has filled up
MaxFullInputs == 2
\* the same, in the runs checked for progress under fair scheduling
MaxFairInputs == 1

\* ------------------------------------------------------ program constants
\* piper::chan::<Message>(10)
ChanCap == 10
\* process::exit(0) on interrupt / close, exit(1) on read error; a main that
\* returns Err exits 1, a panicking main thread exits 101
ExitOk == 0
ExitFail == 1
ExitPanic == 101

\* ------------------------------------------------------------ input sets
\* lines typed at the prompt: "h", "i"
Lines == { <<104>>, <<105>> }
\* text payload "w"
TextPayloads == { <<119>> }
\* binary payloads: "a" and the invalid byte 0xFF
BinaryPayloads == { <<97>>, <<255>> }
PingPayloads == { <<1, 2, 3>>, <<7>> }
PongPayloads == { <<9>> }

\* ----------------------------------------------------------------- state
VARIABLES
    main,            \* position of wscat_client (main thread)
    input,           \* the line read and not yet handed to tx_to_ws_write
    history,         \* readline's history: every line accepted
    inputsLeft,      \* lines and frames the environment will still supply
    ws_handle,       \* position of ws_client (websocket thread)
    read_task,       \* position of read_task
    ping,            \* payload of the Ping whose Pong is being sent
    write_task,      \* position of write_task
    buffered_item,   \* item forward() took off the queue, not yet written
    stdout_handle,   \* position of the stdout loop
    message,         \* message the stdout loop took, not yet printed
    rx_ws_write,     \* contents of the piper channel (Outbound Queue)
    tx_to_ws_write,  \* live Sender handles of the piper channel
    rx_stdout,       \* contents of the mpsc channel (Inbound Queue)
    tx_to_stdout,    \* TRUE while the mpsc Sender is alive
    arrived,         \* frames reader.next() has yielded, in order
    sent,            \* messages accepted by either channel send, in order
    wire,            \* frames written to the socket, in order
    printed,         \* lines written to the terminal, in order
    writer,          \* holder of the readline interface's terminal-writer lock
    exited,          \* TRUE once the process has exited
    exitCode,        \* its exit status
    seen             \* fatal events so far: interrupt, read_error, close

vars == << main, input, history, inputsLeft, ws_handle, read_task, ping,
           write_task, buffered_item, stdout_handle, message, rx_ws_write,
           tx_to_ws_write, rx_stdout, tx_to_stdout, arrived,
           sent, wire, printed, writer, exited, exitCode, seen >>

mainVars == << main, input, history >>
wsVars == << ws_handle, read_task, ping, write_task, buffered_item >>
outVars == << stdout_handle, message, printed, writer >>
exitVars == << exited, exitCode >>
netVars == << inputsLeft, arrived, wire >>

\* --------------------------------------------------------------- messages
Text(s) == [kind |-> "Text", data |-> s]
Binary(b) == [kind |-> "Binary", data |-> b]
Ping(b) == [kind |-> "Ping", data |-> b]
Pong(b) == [kind |-> "Pong", data |-> b]
Close == [kind |-> "Close", data |-> << >>]

is_text(m) == m.kind = "Text"
is_binary(m) == m.kind = "Binary"

\* String::from_utf8: TRUE when the bytes are well-formed UTF-8
RECURSIVE Utf8Valid(_)
Utf8Valid(b) ==
    IF b = << >> THEN TRUE
    ELSE LET c == Head(b)
             Cont(i) == i <= Len(b) /\ b[i] >= 128 /\ b[i] <= 191
         IN  IF c < 128 THEN Utf8Valid(Tail(b))
             ELSE IF c >= 194 /\ c <= 223
                  THEN Cont(2) /\ Utf8Valid(SubSeq(b, 3, Len(b)))
             ELSE IF c >= 224 /\ c <= 239
                  THEN /\ Cont(2) /\ Cont(3)
                       /\ (c = 224 => b[2] >= 160)
                       /\ (c = 237 => b[2] <= 159)
                       /\ Utf8Valid(SubSeq(b, 4, Len(b)))
             ELSE IF c >= 240 /\ c <= 244
                  THEN /\ Cont(2) /\ Cont(3) /\ Cont(4)
                       /\ (c = 240 => b[2] >= 144)
                       /\ (c = 244 => b[2] <= 143)
                       /\ Utf8Valid(SubSeq(b, 5, Len(b)))
             ELSE FALSE

\* format!("{}", Green.paint("Ping!\n")): ESC[32m Ping!\n ESC[0m
PingNotice ==
    << 27, 91, 51, 50, 109, 80, 105, 110, 103, 33, 10, 27, 91, 48, 109 >>

\* "Unsupported ws message"
UnsupportedNotice ==
    << 85, 110, 115, 117, 112, 112, 111, 114, 116, 101, 100, 32, 119, 115,
       32, 109, 101, 115, 115, 97, 103, 101 >>

\* writeln!(w, "<< {}", text)
OutputLine(s) == << 60, 60, 32 >> \o s \o << 10 >>

\* ------------------------------------------------------------------- Init
Init ==
    /\ main = "setup"
    /\ input = << >>
    /\ history = << >>
    /\ inputsLeft = MaxInputs
    /\ ws_handle = "resolve"
    /\ read_task = "unspawned"
    /\ ping = << >>
    /\ write_task = "unspawned"
    /\ buffered_item = << >>
    /\ stdout_handle = "unspawned"
    /\ message = << >>
    /\ rx_ws_write = << >>
    /\ tx_to_ws_write = {"main", "chans"}
    /\ rx_stdout = << >>
    /\ tx_to_stdout = TRUE
    /\ arrived = << >>
    /\ sent = << >>
    /\ wire = << >>
    /\ printed = << >>
    /\ writer = "free"
    /\ exited = FALSE
    /\ exitCode = 0
    /\ seen = {}

\* process::exit(code), or the main thread leaving main(): every thread stops
Exit(code) ==
    /\ exited' = TRUE
    /\ exitCode' = code

\* ------------------------------------------------- main thread: wscat_client
\* linefeed::Interface::new("manx")?, set_prompt("> ")?, then the stdout
\* thread is spawned; a failure returns Err to main() before any prompt
ReadlineSetup ==
    /\ ~exited /\ main = "setup"
    /\ \E ok \in BOOLEAN :
          IF ok
          THEN /\ main' = "read"
               /\ stdout_handle' = "recv"
               /\ UNCHANGED exitVars
          ELSE /\ main' = "returned_err"
               /\ Exit(ExitFail)
               /\ UNCHANGED stdout_handle
    /\ UNCHANGED << input, history, wsVars, message, printed, writer,
                    rx_ws_write, tx_to_ws_write, rx_stdout, tx_to_stdout,
                    netVars, sent, seen >>

\* readline.read_line(): while waiting for a line the line editor redraws
\* the prompt, holding the terminal-writer lock for the time of the redraw
RedrawBegin ==
    /\ ~exited /\ main = "read"
    /\ writer = "free"
    /\ writer' = "stdin"
    /\ main' = "redraw"
    /\ UNCHANGED << input, history, wsVars, stdout_handle, message, printed,
                    rx_ws_write, tx_to_ws_write, rx_stdout, tx_to_stdout,
                    netVars, sent, exitVars, seen >>

\* the redraw is done and the lock released
RedrawEnd ==
    /\ ~exited /\ main = "redraw"
    /\ writer' = "free"
    /\ main' = "read"
    /\ UNCHANGED << input, history, wsVars, stdout_handle, message, printed,
                    rx_ws_write, tx_to_ws_write, rx_stdout, tx_to_stdout,
                    netVars, sent, exitVars, seen >>

\* ReadResult::Input(input): add_history, then block on the channel send
ReadInput(line) ==
    /\ ~exited /\ main = "read" /\ inputsLeft > 0
    /\ inputsLeft' = inputsLeft - 1
    /\ history' = Append(history, line)
    /\ input' = << line >>
    /\ main' = "send"
    /\ UNCHANGED << wsVars, outVars, rx_ws_write, tx_to_ws_write, rx_stdout,
                    tx_to_stdout, arrived, wire, sent, exitVars, seen >>

\* a hand-off that gives up on a full channel and drops the line
SendInput_Drop ==
    /\ ~exited /\ main = "send"
    /\ IF Len(rx_ws_write) < ChanCap
       THEN /\ rx_ws_write' = Append(rx_ws_write, Text(input[1]))
            /\ sent' = Append(sent, Text(input[1]))
       ELSE UNCHANGED << rx_ws_write, sent >>
    /\ input' = << >>
    /\ main' = "read"
    /\ UNCHANGED << history, wsVars, outVars, tx_to_ws_write,
                    rx_stdout, tx_to_stdout, netVars, exitVars, seen >>

\* smol::block_on(tx_to_ws_write.send(Message::text(input))): completes when
\* the channel has room, whether or not a receiver is still alive
SendInput ==
    /\ ~exited /\ main = "send"
    /\ Len(rx_ws_write) < ChanCap
    /\ rx_ws_write' = Append(rx_ws_write, Text(input[1]))
    /\ sent' = Append(sent, Text(input[1]))
    /\ input' = << >>
    /\ main' = "read"
    /\ UNCHANGED << history, wsVars, outVars, tx_to_ws_write,
                    rx_stdout, tx_to_stdout, netVars, exitVars, seen >>

\* an interrupt that only leaves the stdin loop
ReadInterrupt_Break ==
    /\ ~exited /\ main = "read"
    /\ main' = "join_ws"
    /\ seen' = seen \cup {"interrupt"}
    /\ UNCHANGED << input, history, wsVars, outVars, rx_ws_write,
                    tx_to_ws_write, rx_stdout, tx_to_stdout, netVars, sent,
                    exitVars >>

\* ReadResult::Signal(Signal::Interrupt): process::exit(0)
ReadInterrupt ==
    /\ ~exited /\ main = "read"
    /\ Exit(ExitOk)
    /\ seen' = seen \cup {"interrupt"}
    /\ UNCHANGED << mainVars, wsVars, outVars, rx_ws_write, tx_to_ws_write,
                    rx_stdout, tx_to_stdout, netVars, sent >>

\* any other ReadResult (Eof): break out of the stdin loop
ReadEof ==
    /\ ~exited /\ main = "read"
    /\ main' = "join_ws"
    /\ UNCHANGED << input, history, wsVars, outVars, rx_ws_write,
                    tx_to_ws_write, rx_stdout, tx_to_stdout, netVars, sent,
                    exitVars, seen >>

\* readline.read_line()? fails: wscat_client returns Err, main() exits 1
ReadError ==
    /\ ~exited /\ main = "read"
    /\ main' = "returned_err"
    /\ Exit(ExitFail)
    /\ UNCHANGED << input, history, wsVars, outVars, rx_ws_write,
                    tx_to_ws_write, rx_stdout, tx_to_stdout, netVars, sent, seen >>

\* ws_handle.join().unwrap().unwrap(): waits for the websocket thread; an
\* Err result or a panicked thread panics the main thread
JoinWs ==
    /\ ~exited /\ main = "join_ws"
    /\ ws_handle \in {"ok", "err", "panicked"}
    /\ IF ws_handle = "ok"
       THEN /\ main' = "join_stdout"
            /\ UNCHANGED exitVars
       ELSE /\ main' = "panicked"
            /\ Exit(ExitPanic)
    /\ UNCHANGED << input, history, wsVars, outVars, rx_ws_write,
                    tx_to_ws_write, rx_stdout, tx_to_stdout, netVars, sent, seen >>

\* a coordinator that returns without joining the stdout thread
JoinStdout_NoWait ==
    /\ ~exited /\ main = "join_stdout"
    /\ main' = "returned_ok"
    /\ Exit(ExitOk)
    /\ UNCHANGED << input, history, wsVars, outVars, rx_ws_write,
                    tx_to_ws_write, rx_stdout, tx_to_stdout, netVars, sent,
                    seen >>

\* stdout_handle.join().unwrap(); Ok(()): main() returns Ok, exit status 0
JoinStdout ==
    /\ ~exited /\ main = "join_stdout"
    /\ stdout_handle = "done"
    /\ main' = "returned_ok"
    /\ Exit(ExitOk)
    /\ UNCHANGED << input, history, wsVars, outVars, rx_ws_write,
                    tx_to_ws_write, rx_stdout, tx_to_stdout, netVars, sent, seen >>

\* ------------------------------------------------------------ stdout loop
\* a stdout loop that takes the newest message of the channel
StdoutRecv_Newest ==
    /\ ~exited /\ stdout_handle = "recv"
    /\ rx_stdout # << >>
    /\ rx_stdout' = SubSeq(rx_stdout, 1, Len(rx_stdout) - 1)
    /\ message' = << rx_stdout[Len(rx_stdout)] >>
    /\ stdout_handle' = "print"
    /\ UNCHANGED << mainVars, wsVars, printed, writer, rx_ws_write,
                    tx_to_ws_write, tx_to_stdout, netVars, sent, exitVars,
                    seen >>

\* for message in rx_stdout: next item; anything that is neither text nor
\* binary is skipped; the loop ends when the Sender is gone and the channel
\* is empty
StdoutRecv ==
    /\ ~exited /\ stdout_handle = "recv"
    /\ IF rx_stdout # << >>
       THEN /\ rx_stdout' = Tail(rx_stdout)
            /\ IF is_text(Head(rx_stdout)) \/ is_binary(Head(rx_stdout))
               THEN /\ message' = << Head(rx_stdout) >>
                    /\ stdout_handle' = "print"
               ELSE UNCHANGED << message, stdout_handle >>
       ELSE /\ ~tx_to_stdout
            /\ stdout_handle' = "done"
            /\ UNCHANGED << rx_stdout, message >>
    /\ UNCHANGED << mainVars, wsVars, printed, writer, rx_ws_write,
                    tx_to_ws_write, tx_to_stdout, netVars, sent, exitVars,
                    seen >>

\* a stdout loop that writes without taking the terminal-writer lock
StdoutLock_NoLock ==
    /\ ~exited /\ stdout_handle = "print"
    /\ stdout_handle' = "write"
    /\ UNCHANGED << mainVars, wsVars, message, printed, writer, rx_ws_write,
                    tx_to_ws_write, rx_stdout, tx_to_stdout, netVars, sent,
                    exitVars, seen >>

\* let mut w = stdout_readline.lock_writer_erase().unwrap(): waits for the
\* terminal-writer lock and erases the prompt
StdoutLock ==
    /\ ~exited /\ stdout_handle = "print"
    /\ writer = "free"
    /\ writer' = "stdout"
    /\ stdout_handle' = "write"
    /\ UNCHANGED << mainVars, wsVars, message, printed, rx_ws_write,
                    tx_to_ws_write, rx_stdout, tx_to_stdout, netVars, sent,
                    exitVars, seen >>

\* writeln!(w, "<< {}", message.into_text().unwrap()); w is dropped at the
\* end of the iteration, which releases the lock
StdoutPrint ==
    /\ ~exited /\ stdout_handle = "write"
    /\ printed' = Append(printed, OutputLine(message[1].data))
    /\ message' = << >>
    /\ writer' = "free"
    /\ stdout_handle' = "recv"
    /\ UNCHANGED << mainVars, wsVars, rx_ws_write, tx_to_ws_write, rx_stdout,
                    tx_to_stdout, netVars, sent, exitVars, seen >>

\* ------------------------------------------- websocket thread: ws_client
\* ws_client's future is dropped (return, or unwinding): the Sender taken
\* from chans, its clone and the mpsc Sender go with it
DropChans ==
    /\ tx_to_ws_write' = tx_to_ws_write \ {"chans", "clone"}
    /\ tx_to_stdout' = FALSE

\* a `?` of the pre-connect stage fails: ws_client returns Err to its thread
ReturnErr ==
    /\ ws_handle' = "err"
    /\ DropChans
    /\ UNCHANGED << read_task, ping, write_task, buffered_item >>

\* tx_to_ws_write.clone(); url.host_str().context(..)?;
\* url.port_or_known_default().context(..)?
Resolve ==
    /\ ~exited /\ ws_handle = "resolve"
    /\ \E ok \in BOOLEAN :
          IF ok
          THEN /\ ws_handle' = "connect"
               /\ tx_to_ws_write' = tx_to_ws_write \cup {"clone"}
               /\ UNCHANGED << read_task, ping, write_task, buffered_item,
                               tx_to_stdout >>
          ELSE ReturnErr
    /\ UNCHANGED << mainVars, outVars, rx_ws_write, rx_stdout, netVars, sent,
                    exitVars, seen >>

\* Async::<TcpStream>::connect(&addr).await?
Connect ==
    /\ ~exited /\ ws_handle = "connect"
    /\ \E ok \in BOOLEAN :
          IF ok
          THEN /\ ws_handle' = "handshake"
               /\ UNCHANGED << read_task, ping, write_task, buffered_item,
                               tx_to_ws_write, tx_to_stdout >>
          ELSE ReturnErr
    /\ UNCHANGED << mainVars, outVars, rx_ws_write, rx_stdout, netVars, sent,
                    exitVars, seen >>

\* async_tungstenite::client_async(&url, stream).await?; on success the
\* stream is split and both local tasks are spawned, then select awaits them
Handshake ==
    /\ ~exited /\ ws_handle = "handshake"
    /\ \E ok \in BOOLEAN :
          IF ok
          THEN /\ ws_handle' = "select"
               /\ read_task' = "next"
               /\ write_task' = "poll"
               /\ UNCHANGED << ping, buffered_item, tx_to_ws_write,
                               tx_to_stdout >>
          ELSE ReturnErr
    /\ UNCHANGED << mainVars, outVars, rx_ws_write, rx_stdout, netVars, sent,
                    exitVars, seen >>

\* a send that blocks the websocket thread instead of yielding to the executor
Idle_Blocking == read_task \notin {"pong", "pong_wait"}

\* smol::run polls one local task at a time: while the read task is between
\* a decoded Ping and its send, nothing else runs on the websocket thread
Idle == read_task # "pong"

\* the read task is at reader.next().await and the server has a frame for it
CanRecv ==
    /\ ~exited /\ ws_handle = "select" /\ read_task = "next"
    /\ inputsLeft > 0

\* tx_to_stdout.send(Message::text(out)).unwrap() and back to reader.next()
Display(frame, out) ==
    /\ inputsLeft' = inputsLeft - 1
    /\ arrived' = Append(arrived, frame)
    /\ rx_stdout' = Append(rx_stdout, Text(out))
    /\ UNCHANGED << mainVars, wsVars, outVars, rx_ws_write, tx_to_ws_write,
                    tx_to_stdout, wire, sent, exitVars, seen >>

\* Message::Text(payload) => payload
RecvText(payload) ==
    /\ CanRecv
    /\ Display(Text(payload), payload)

\* Message::Binary(payload) => String::from_utf8(payload).unwrap(); the
\* panic of the unwrap unwinds the websocket thread
RecvBinary(payload) ==
    /\ CanRecv
    /\ IF Utf8Valid(payload)
       THEN Display(Binary(payload), payload)
       ELSE /\ inputsLeft' = inputsLeft - 1
            /\ arrived' = Append(arrived, Binary(payload))
            /\ ws_handle' = "panicked"
            /\ read_task' = "panicked"
            /\ write_task' = "cancelled"
            /\ buffered_item' = << >>
            /\ DropChans
            /\ UNCHANGED << mainVars, outVars, ping, rx_ws_write, rx_stdout,
                            wire, sent, exitVars, seen >>

\* an unsupported frame that is swallowed without a notice
RecvOther_Silent(payload) ==
    /\ CanRecv
    /\ inputsLeft' = inputsLeft - 1
    /\ arrived' = Append(arrived, Pong(payload))
    /\ UNCHANGED << mainVars, wsVars, outVars, rx_ws_write, tx_to_ws_write,
                    rx_stdout, tx_to_stdout, wire, sent, exitVars, seen >>

\* an unsupported frame that is passed on to the stdout loop as it came
RecvOther_Raw(payload) ==
    /\ CanRecv
    /\ inputsLeft' = inputsLeft - 1
    /\ arrived' = Append(arrived, Pong(payload))
    /\ rx_stdout' = Append(rx_stdout, Pong(payload))
    /\ UNCHANGED << mainVars, wsVars, outVars, rx_ws_write, tx_to_ws_write,
                    tx_to_stdout, wire, sent, exitVars, seen >>

\* _ => format!("Unsupported ws message")
RecvOther(payload) ==
    /\ CanRecv
    /\ Display(Pong(payload), UnsupportedNotice)

\* Message::Ping(payload): the read task goes on, without yielding, to
\* tx_to_ws_write.send(Message::Pong(payload)).await
RecvPing(payload) ==
    /\ CanRecv
    /\ inputsLeft' = inputsLeft - 1
    /\ arrived' = Append(arrived, Ping(payload))
    /\ ping' = << payload >>
    /\ read_task' = "pong"
    /\ UNCHANGED << mainVars, ws_handle, write_task, buffered_item, outVars,
                    rx_ws_write, tx_to_ws_write, rx_stdout, tx_to_stdout,
                    wire, sent, exitVars, seen >>

\* a Pong send that ignores the capacity of the channel
SendPong_Unbounded ==
    /\ ~exited /\ ws_handle = "select" /\ read_task \in {"pong", "pong_wait"}
    /\ rx_ws_write' = Append(rx_ws_write, Pong(ping[1]))
    /\ sent' = Append(sent, Pong(ping[1]))
    /\ rx_stdout' = Append(rx_stdout, Text(PingNotice))
    /\ ping' = << >>
    /\ read_task' = "next"
    /\ UNCHANGED << mainVars, ws_handle, write_task, buffered_item, outVars,
                    tx_to_ws_write, tx_to_stdout, netVars, exitVars, seen >>

\* a Pong reply that does not carry the Ping's payload
SendPong_Empty ==
    /\ ~exited /\ ws_handle = "select" /\ read_task \in {"pong", "pong_wait"}
    /\ Len(rx_ws_write) < ChanCap
    /\ rx_ws_write' = Append(rx_ws_write, Pong(<< >>))
    /\ sent' = Append(sent, Pong(<< >>))
    /\ rx_stdout' = Append(rx_stdout, Text(PingNotice))
    /\ ping' = << >>
    /\ read_task' = "next"
    /\ UNCHANGED << mainVars, ws_handle, write_task, buffered_item, outVars,
                    tx_to_ws_write, tx_to_stdout, netVars, exitVars, seen >>

\* the send is polled: with room in the channel it completes, and the
\* "Ping!" notice goes to the stdout loop; on a full channel the task yields
\* ("pong_wait") and is polled again later
SendPong ==
    /\ ~exited /\ ws_handle = "select" /\ read_task \in {"pong", "pong_wait"}
    /\ IF Len(rx_ws_write) < ChanCap
       THEN /\ rx_ws_write' = Append(rx_ws_write, Pong(ping[1]))
            /\ sent' = Append(sent, Pong(ping[1]))
            /\ rx_stdout' = Append(rx_stdout, Text(PingNotice))
            /\ ping' = << >>
            /\ read_task' = "next"
       ELSE /\ read_task = "pong"
            /\ read_task' = "pong_wait"
            /\ UNCHANGED << rx_ws_write, sent, rx_stdout, ping >>
    /\ UNCHANGED << mainVars, ws_handle, write_task, buffered_item, outVars,
                    tx_to_ws_write, tx_to_stdout, netVars, exitVars, seen >>

\* a Close frame that only ends the read task
RecvClose_EndTask ==
    /\ CanRecv
    /\ inputsLeft' = inputsLeft - 1
    /\ arrived' = Append(arrived, Close)
    /\ read_task' = "done"
    /\ seen' = seen \cup {"close"}
    /\ UNCHANGED << mainVars, ws_handle, ping, write_task, buffered_item,
                    outVars, rx_ws_write, tx_to_ws_write, rx_stdout,
                    tx_to_stdout, wire, sent, exitVars >>

\* Message::Close(_): process::exit(0)
RecvClose ==
    /\ CanRecv
    /\ inputsLeft' = inputsLeft - 1
    /\ arrived' = Append(arrived, Close)
    /\ Exit(ExitOk)
    /\ seen' = seen \cup {"close"}
    /\ UNCHANGED << mainVars, wsVars, outVars, rx_ws_write, tx_to_ws_write,
                    rx_stdout, tx_to_stdout, wire, sent >>

\* a read error that only ends the read task
RecvErr_EndTask ==
    /\ ~exited /\ ws_handle = "select" /\ read_task = "next"
    /\ read_task' = "done"
    /\ seen' = seen \cup {"read_error"}
    /\ UNCHANGED << mainVars, ws_handle, ping, write_task, buffered_item,
                    outVars, rx_ws_write, tx_to_ws_write, rx_stdout,
                    tx_to_stdout, netVars, sent, exitVars >>

\* reader.next() yields Err(err): process::exit(1)
RecvErr ==
    /\ ~exited /\ ws_handle = "select" /\ read_task = "next"
    /\ Exit(ExitFail)
    /\ seen' = seen \cup {"read_error"}
    /\ UNCHANGED << mainVars, wsVars, outVars, rx_ws_write, tx_to_ws_write,
                    rx_stdout, tx_to_stdout, netVars, sent >>

\* reader.next() yields None: the while-let ends and the read task finishes
RecvNone ==
    /\ ~exited /\ ws_handle = "select" /\ read_task = "next"
    /\ read_task' = "done"
    /\ UNCHANGED << mainVars, ws_handle, ping, write_task, buffered_item,
                    outVars, rx_ws_write, tx_to_ws_write, rx_stdout,
                    tx_to_stdout, netVars, sent, exitVars, seen >>

\* forward() taking the newest item of the channel instead of the oldest
ForwardNext_Newest ==
    /\ ~exited /\ ws_handle = "select" /\ Idle /\ write_task = "poll"
    /\ rx_ws_write # << >>
    /\ buffered_item' = << rx_ws_write[Len(rx_ws_write)] >>
    /\ rx_ws_write' = SubSeq(rx_ws_write, 1, Len(rx_ws_write) - 1)
    /\ write_task' = "write"
    /\ UNCHANGED << mainVars, ws_handle, read_task, ping, outVars,
                    tx_to_ws_write, rx_stdout, tx_to_stdout, netVars, sent,
                    exitVars, seen >>

\* forward(): poll the channel for the next item; the stream ends only when
\* the channel is empty and no Sender is left
ForwardNext ==
    /\ ~exited /\ ws_handle = "select" /\ Idle /\ write_task = "poll"
    /\ IF rx_ws_write # << >>
       THEN /\ buffered_item' = << Head(rx_ws_write) >>
            /\ rx_ws_write' = Tail(rx_ws_write)
            /\ write_task' = "write"
       ELSE /\ tx_to_ws_write = {}
            /\ write_task' = "done"
            /\ UNCHANGED << buffered_item, rx_ws_write >>
    /\ UNCHANGED << mainVars, ws_handle, read_task, ping, outVars,
                    tx_to_ws_write, rx_stdout, tx_to_stdout, netVars, sent,
                    exitVars, seen >>

\* forward(): the buffered item is written to the sink
ForwardSend ==
    /\ ~exited /\ ws_handle = "select" /\ Idle /\ write_task = "write"
    /\ wire' = Append(wire, buffered_item[1])
    /\ buffered_item' = << >>
    /\ write_task' = "poll"
    /\ UNCHANGED << mainVars, ws_handle, read_task, ping, outVars,
                    rx_ws_write, tx_to_ws_write, rx_stdout, tx_to_stdout,
                    inputsLeft, arrived, sent, exitVars, seen >>

\* forward(): the sink reports an error; the write task finishes with Err
ForwardErr ==
    /\ ~exited /\ ws_handle = "select" /\ Idle /\ write_task = "write"
    /\ buffered_item' = << >>
    /\ write_task' = "done"
    /\ UNCHANGED << mainVars, ws_handle, read_task, ping, outVars,
                    rx_ws_write, tx_to_ws_write, rx_stdout, tx_to_stdout,
                    netVars, sent, exitVars, seen >>

\* a bridge that waits for both tasks (join instead of select)
Select_Both ==
    /\ ~exited /\ ws_handle = "select" /\ Idle
    /\ read_task = "done" /\ write_task = "done"
    /\ ws_handle' = "ok"
    /\ ping' = << >>
    /\ buffered_item' = << >>
    /\ DropChans
    /\ UNCHANGED << mainVars, read_task, write_task, outVars, rx_ws_write,
                    rx_stdout, netVars, sent, exitVars, seen >>

\* future::select(read_task, write_task).await; Ok(()): the first task to
\* finish ends ws_client, the other one is dropped where it stands
Select ==
    /\ ~exited /\ ws_handle = "select" /\ Idle
    /\ read_task = "done" \/ write_task = "done"
    /\ ws_handle' = "ok"
    /\ read_task' = (IF read_task = "done" THEN "done" ELSE "cancelled")
    /\ write_task' = (IF write_task = "done" THEN "done" ELSE "cancelled")
    /\ ping' = << >>
    /\ buffered_item' = << >>
    /\ DropChans
    /\ UNCHANGED << mainVars, outVars, rx_ws_write, rx_stdout, netVars, sent,
                    exitVars, seen >>

\* ------------------------------------------------------------------- Next
Next ==
    \/ ReadlineSetup
    \/ RedrawBegin
    \/ RedrawEnd
    \/ \E line \in Lines : ReadInput(line)
    \/ SendInput
    \/ ReadInterrupt
    \/ ReadEof
    \/ ReadError
    \/ JoinWs
    \/ JoinStdout
    \/ StdoutRecv
    \/ StdoutLock
    \/ StdoutPrint
    \/ Resolve
    \/ Connect
    \/ Handshake
    \/ \E payload \in TextPayloads : RecvText(payload)
    \/ \E payload \in BinaryPayloads : RecvBinary(payload)
    \/ \E payload \in PongPayloads : RecvOther(payload)
    \/ \E payload \in PingPayloads : RecvPing(payload)
    \/ SendPong
    \/ RecvClose
    \/ RecvErr
    \/ RecvNone
    \/ ForwardNext
    \/ ForwardSend
    \/ ForwardErr
    \/ Select

Spec == Init /\ [][Next]_vars

\* ------------------------------------------- runs with a full channel
\* The user has typed ChanCap lines while the websocket thread was still
\* resolving the address: every line is in the channel, nothing is sent yet.
TypedAhead == [i \in 1 .. ChanCap |-> IF i % 2 = 1 THEN <<104>> ELSE <<105>>]

TypedAheadState(n) ==
    /\ main = "read"
    /\ input = << >>
    /\ history = TypedAhead
    /\ inputsLeft = n
    /\ ws_handle = "resolve"
    /\ read_task = "unspawned"
    /\ ping = << >>
    /\ write_task = "unspawned"
    /\ buffered_item = << >>
    /\ stdout_handle = "recv"
    /\ message = << >>
    /\ rx_ws_write = [i \in 1 .. ChanCap |-> Text(TypedAhead[i])]
    /\ tx_to_ws_write = {"main", "chans"}
    /\ rx_stdout = << >>
    /\ tx_to_stdout = TRUE
    /\ arrived = << >>
    /\ sent = [i \in 1 .. ChanCap |-> Text(TypedAhead[i])]
    /\ wire = << >>
    /\ printed = << >>
    /\ writer = "free"
    /\ exited = FALSE
    /\ exitCode = 0
    /\ seen = {}

InitFull == TypedAheadState(MaxFullInputs)

\* every step of the program but the readline setup, which is over
NextFull ==
    \/ RedrawBegin
    \/ RedrawEnd
    \/ \E line \in Lines : ReadInput(line)
    \/ SendInput
    \/ ReadInterrupt
    \/ ReadEof
    \/ ReadError
    \/ JoinWs
    \/ JoinStdout
    \/ StdoutRecv
    \/ StdoutLock
    \/ StdoutPrint
    \/ Resolve
    \/ Connect
    \/ Handshake
    \/ \E payload \in TextPayloads : RecvText(payload)
    \/ \E payload \in BinaryPayloads : RecvBinary(payload)
    \/ \E payload \in PongPayloads : RecvOther(payload)
    \/ \E payload \in PingPayloads : RecvPing(payload)
    \/ SendPong
    \/ RecvClose
    \/ RecvErr
    \/ RecvNone
    \/ ForwardNext
    \/ ForwardSend
    \/ ForwardErr
    \/ Select

SpecFull == InitFull /\ [][NextFull]_vars

\* smol's executor keeps polling a local task that can make progress, the
\* socket accepts a write that is offered to it, and a thread blocked in a
\* send goes on once the channel has room
InitFair == TypedAheadState(MaxFairInputs)

Fairness ==
    /\ WF_vars(ForwardNext)
    /\ WF_vars(ForwardSend)
    /\ WF_vars(SendPong)
    /\ WF_vars(SendInput)

FairSpecFull == InitFair /\ [][NextFull]_vars /\ Fairness

\* ------------------------------------------------------------- properties
IsPrefix(s, t) == Len(s) <= Len(t) /\ SubSeq(t, 1, Len(s)) = s

OfKind(seq, kind) == SelectSeq(seq, LAMBDA m : m.kind = kind)
DataOf(seq) == [i \in 1 .. Len(seq) |-> seq[i].data]

\* the terminal line each received frame stands for: one line for a Text,
\* Binary, Ping or Pong frame, none for a Close frame
RECURSIVE LinesFor(_)
LinesFor(frames) ==
    IF frames = << >> THEN << >>
    ELSE LET f == Head(frames)
             line == CASE f.kind = "Text" -> << OutputLine(f.data) >>
                       [] f.kind = "Binary" -> << OutputLine(f.data) >>
                       [] f.kind = "Ping" -> << OutputLine(PingNotice) >>
                       [] f.kind = "Pong" -> << OutputLine(UnsupportedNotice) >>
                       [] OTHER -> << >>
         IN  line \o LinesFor(Tail(frames))

\* lines printed, plus those of the messages still on their way to the terminal
Displayed ==
    printed \o [i \in 1 .. Len(message) |-> OutputLine(message[i].data)]
            \o [i \in 1 .. Len(rx_stdout) |-> OutputLine(rx_stdout[i].data)]

\* C1 (P1, FIFO per producer): the Text messages written to the wire are, in
\* order, the first lines submitted at the prompt, whatever Pong replies are
\* interleaved with them.
C1_FifoPerProducer ==
    IsPrefix(DataOf(OfKind(wire, "Text")), history)

C1_Witness ==
    /\ Len(wire) = 3
    /\ wire[2].kind = "Pong"
    /\ DataOf(OfKind(wire, "Text")) = << <<105>>, <<104>> >>

C3_KeepaliveReply ==
    /\ read_task \in {"next", "done"} =>
          DataOf(OfKind(sent, "Pong")) = DataOf(OfKind(arrived, "Ping"))
    /\ read_task \in {"pong", "pong_wait"} =>
          DataOf(OfKind(sent, "Pong")) \o ping = DataOf(OfKind(arrived, "Ping"))

C3_Witness ==
    /\ read_task = "next"
    /\ history = << >>
    /\ DataOf(OfKind(sent, "Pong")) = << <<1, 2, 3>>, <<7>> >>

\* C4 (P4, interrupt immediacy): once the interrupt has been reported to the
\* stdin loop, the process has exited with status 0, whatever the other two
\* threads were doing.
C4_InterruptExits ==
    "interrupt" \in seen => exited /\ exitCode = 0

C4_Witness ==
    /\ "interrupt" \in seen
    /\ ws_handle = "handshake"
    /\ rx_ws_write # << >>

\* C5 (P5, fatal close): once the read task got a transport read error, the
\* process has exited with a non-zero status, and from then on nothing is
\* enqueued on either channel and nothing is written to the wire.
C5_FatalReadError ==
    /\ []("read_error" \in seen => exited /\ exitCode # 0)
    /\ [][ "read_error" \in seen =>
             UNCHANGED << rx_ws_write, rx_stdout, sent, wire >> ]_vars

C5_Witness ==
    /\ "read_error" \in seen
    /\ rx_ws_write # << >>
    /\ buffered_item # << >>

\* C6 (Scenario C): once the read task decoded a Close frame, the process has
\* exited with status 0 and no further frame is written to the wire, even
\* with messages left in the outbound channel.
C6_CloseExits ==
    /\ []("close" \in seen => exited /\ exitCode = 0)
    /\ [][ "close" \in seen => wire' = wire ]_vars

C6_Witness ==
    /\ "close" \in seen
    /\ rx_ws_write # << >>
    /\ buffered_item # << >>

\* C7: after a pre-connect failure (ws_client returned Err) the stdin loop
\* accepts no further line and enqueues nothing, and a terminated process has
\* returned the error from wscat_client.
C7_PreconnectAborts ==
    /\ [][ ws_handle = "err" => history' = history /\ sent' = sent ]_vars
    /\ [](ws_handle = "err" /\ exited => main = "returned_err")

\* C8: a process whose connect or handshake failed never exits with status 0.
C8_FailedHandshakeNonZero ==
    ws_handle = "err" /\ exited => exitCode # 0

\* C9: when the stdin loop has ended on end-of-input while the connection is
\* open, the outbound channel is closed (no Sender is left), so that the write
\* task can drain it and end.
C9_EofClosesChannel ==
    main = "join_ws" /\ ws_handle = "select" => tx_to_ws_write = {}

\* C10: wscat_client has returned Ok only after the stdin loop ended and both
\* the websocket thread and the stdout thread have finished.
C10_ReturnAfterJoins ==
    main = "returned_ok" =>
        /\ exited /\ exitCode = 0
        /\ ws_handle = "ok"
        /\ stdout_handle = "done"

C10_Witness ==
    /\ main = "returned_ok"
    /\ printed # << >>
    /\ wire # << >>

\* the steps the three threads take by themselves: no line, signal or error
\* from the user's terminal, no frame or error from the server, no new redraw
OwnStep ==
    \/ ReadlineSetup
    \/ RedrawEnd
    \/ SendInput
    \/ JoinWs
    \/ JoinStdout
    \/ StdoutRecv
    \/ StdoutLock
    \/ StdoutPrint
    \/ SendPong
    \/ ForwardNext
    \/ ForwardSend
    \/ Select

Count(seq, x) == Len(SelectSeq(seq, LAMBDA e : e = x))

\* C11: once the bridge has completed (the frame stream ended or a task
\* finished) and the threads have taken every step they can take by
\* themselves, the process has exited: no input or interrupt is needed.
C11_TornDownAfterSocketClose ==
    ws_handle = "ok" /\ ~ENABLED OwnStep => exited

\* C12: a Binary frame that is not valid UTF-8 leaves the read task and the
\* websocket thread running.
C12_InvalidBinaryTolerated ==
    (\E i \in 1 .. Len(arrived) :
        arrived[i].kind = "Binary" /\ ~Utf8Valid(arrived[i].data))
    => read_task # "panicked" /\ ws_handle # "panicked"

\* C13 (back-pressure without loss): the Text messages accepted by the
\* outbound channel, followed by the line still being handed off, are exactly
\* the lines submitted; a line is being handed off exactly while the stdin loop
\* is in the send, also on a full channel; submitted lines never reach the
\* inbound channel.
C13_BackPressureNoLoss ==
    /\ DataOf(OfKind(sent, "Text")) \o input = history
    /\ Len(input) = (IF main = "send" THEN 1 ELSE 0)
    /\ Len(Displayed) <= Len(arrived)

C13_Witness ==
    /\ main = "send"
    /\ Len(rx_ws_write) = 10
    /\ ws_handle = "select"
    /\ Len(history) = 11

\* C14 (bridge termination): ws_client has returned only after one of its
\* tasks finished, the other one being abandoned where it stood; a finished
\* task lets select return without the other; once it has returned, no frame
\* is read or written, and no Pong and no inbound message is enqueued.
C14_SelectFirstCompletion ==
    /\ [](ws_handle = "ok" =>
            /\ read_task = "done" \/ write_task = "done"
            /\ read_task \in {"done", "cancelled"}
            /\ write_task \in {"done", "cancelled"})
    /\ [](/\ ws_handle = "select" /\ ~exited /\ Idle
          /\ read_task = "done" \/ write_task = "done"
          => ENABLED Select)
    /\ [][ ws_handle = "ok" =>
             /\ wire' = wire
             /\ arrived' = arrived
             /\ OfKind(sent', "Pong") = OfKind(sent, "Pong")
             /\ Len(rx_stdout') <= Len(rx_stdout) ]_vars

C14_Witness ==
    /\ ws_handle = "ok"
    /\ write_task = "done"
    /\ read_task = "cancelled"
    /\ Len(OfKind(arrived, "Ping")) > Len(OfKind(sent, "Pong"))

\* C15 (terminal mutual exclusion): the stdout loop is writing a line only
\* while it holds the terminal-writer lock, the prompt is redrawn only while
\* the stdin loop holds it, and the two are never in progress together.
C15_TerminalMutex ==
    /\ stdout_handle = "write" => writer = "stdout"
    /\ main = "redraw" => writer = "stdin"
    /\ ~(stdout_handle = "write" /\ main = "redraw")

C15_Witness ==
    /\ main = "redraw"
    /\ stdout_handle = "print"
    /\ printed # << >>

\* C16: when the read task is back at reader.next(), the inbound channel has
\* received one "Ping!" notice per Ping decoded and one "Unsupported ws
\* message" notice per unsupported frame decoded; neither kind of frame stops
\* the read task.
C16_NoticePerFrame ==
    /\ read_task \in {"next", "done"} =>
          /\ Count(Displayed, OutputLine(PingNotice))
                = Len(OfKind(arrived, "Ping"))
          /\ Count(Displayed, OutputLine(UnsupportedNotice))
                = Len(OfKind(arrived, "Pong"))
    /\ (arrived # << >> /\ arrived[Len(arrived)].kind \in {"Ping", "Pong"})
          => read_task # "panicked"

C16_Witness ==
    /\ read_task = "next"
    /\ arrived = << Ping(<<7>>), Pong(<<9>>) >>
    /\ inputsLeft > 0

C18_ChannelBounded ==
    Len(rx_ws_write) <= 10

C18_Witness ==
    /\ Len(rx_ws_write) = 10
    /\ main = "send"
    /\ read_task = "pong_wait"

\* the connection is no longer live: the process is gone, ws_client is past
\* its select, or the write task has ended
NotLive == exited \/ ws_handle # "select" \/ write_task = "done"

\* C19 (no deadlock on the full channel): a read task suspended in its Pong
\* send, and a stdin loop in its hand-off, on a live connection, eventually
\* get their message enqueued (or the connection stops being live).
C19_FullChannelProgress ==
    /\ (read_task = "pong_wait") ~> (read_task = "next" \/ NotLive)
    /\ (main = "send" /\ ws_handle = "select") ~> (main # "send" \/ NotLive)

C19_Witness ==
    /\ read_task = "pong_wait"
    /\ write_task = "write"
    /\ Len(rx_ws_write) = 9
    /\ inputsLeft = 0

====
